---- MODULE Spec2Model ----
(***************************************************************************)
(* Run-control coordinator of the research agent: the asyncio tasks of     *)
(* src/app/server.py (one ws_handler per WebSocket, run_research workers)  *)
(* and the AgentController of src/app/controller.py they share.            *)
(*                                                                         *)
(* Scheduling follows the asyncio event loop: tasks that are ready sit in  *)
(* a FIFO queue (ready); the loop takes the head (cur) and runs it without *)
(* interruption up to its next suspending await.  External events (a       *)
(* socket connecting, a message arriving, a transport draining, a timer)   *)
(* are seen by the loop only between two task slices and append the task   *)
(* they wake to the queue.                                                 *)
(***************************************************************************)
EXTENDS Integers, Sequences, FiniteSets, TLC

NConn == 2        \* WebSocket connections over the life of the process
MaxWorkers == 3   \* run_research tasks that can be spawned

Conns == 1..NConn
W(k) == 100 + k
Workers == {W(k) : k \in 1..MaxWorkers}
Tasks == Conns \cup Workers
NoTask == W(0)       \* cur when the loop runs no task: an id outside Tasks
None == "None"
FALLBACK == "No response - continue with best judgment"
CONTINUE == "Continue"
Texts == {"yes"}
Titles == {"Widget"}

VARIABLES
  \* AgentController fields
  running, paused, stop_requested, human_response, human_response_event,
  resume_event, findings, log_callback,
  \* server.py module state
  connections,
  \* transport of each WebSocket: "new", "open", "closed"
  open,
  \* what each connection has been sent, in order (0 = the state snapshot)
  inbox,
  \* event loop
  ready, cur,
  \* position of every task, and the frame of the broadcast it is inside
  pc, bc,
  \* the command a ws_handler is handling
  msg,
  \* worker locals: result of the last check_pause / ask_human call, exception
  \* a finally block will re-raise, callbacks the agent still makes
  chk, askres, pendexc, steps,
  \* observation: human_input texts handled since the question of the
  \* current ask_human call was sent out (heard) / while it was waited for
  \* (heardW); resume handled since the current check_pause call began
  heard, heardW, resumedSince,
  \* broadcast calls so far; what the scenario still admits: inbound commands,
  \* sends that suspend on a full transport (steps: callbacks of each run)
  nbc, ncmd, ndrain,
  \* whether the deliveries are recorded: inbox and the broadcast numbers are
  \* an observation of the run, not state of the program
  tracing,
  \* payloads, recorded with the deliveries: the snapshots each connection was
  \* sent (server.py 38-43), the findings in each run's result messages (102)
  snap, carried,
  \* history of each run, recorded with the deliveries: its result and
  \* error-level broadcasts in order, whether a stop command was handled
  \* since it was spawned, how often it called report_item, how many of its
  \* finding logs reached an observer
  terminal, stopHeard, reports, shown

ctl == <<running, paused, stop_requested, human_response, human_response_event,
         resume_event, findings, log_callback>>
net == <<connections, open, inbox>>
loc == <<chk, askres, pendexc, steps>>
obs == <<heard, heardW, resumedSince>>
cnt == <<nbc, ncmd, ndrain>>
pay == <<snap, carried>>
hist == <<terminal, stopHeard, reports, shown>>
Count == IF tracing THEN nbc + 1 ELSE nbc
vars == <<ctl, net, ready, cur, pc, bc, msg, loc, obs, cnt, tracing, pay, hist>>

NoMsg == [action |-> None, arg |-> None, aft |-> {}]

NoBc == [st |-> "none", id |-> 0, kind |-> None, pos |-> 0, used |-> 0,
         dead |-> {}, sent |-> {}]

Min(S) == CHOOSE x \in S : \A y \in S : x <= y

\* the orders in which the waiters in S can be appended to the ready queue
Orders(S) == {s \in [1..Cardinality(S) -> S] : \A i, j \in 1..Cardinality(S) : s[i] = s[j] => i = j}

\* The state after the module is loaded (controller.py 8-26, server.py 11-12)
\* in a scenario of nc connections, nw worker tasks, k inbound commands,
\* n callbacks per run and d suspending sends.
Scenario(nc, nw, k, n, d, traced) ==
  /\ running = FALSE /\ paused = FALSE /\ stop_requested = FALSE
  /\ human_response = None /\ human_response_event = FALSE
  /\ resume_event = TRUE
  /\ findings = <<>> /\ log_callback = FALSE
  /\ connections = {}
  /\ open = [c \in Conns |-> "new"]
  /\ inbox = [c \in Conns |-> <<>>]
  /\ ready = <<>> /\ cur = NoTask
  /\ pc = [t \in Tasks |-> IF t \in Conns THEN (IF t <= nc THEN "absent" ELSE "off")
                           ELSE (IF t <= W(nw) THEN "unspawned" ELSE "off")]
  /\ bc = [t \in Tasks |-> NoBc]
  /\ msg = [c \in Conns |-> NoMsg]
  /\ chk = [w \in Workers |-> None]
  /\ askres = [w \in Workers |-> None]
  /\ pendexc = [w \in Workers |-> FALSE]
  /\ steps = [w \in Workers |-> n]
  /\ heard = [w \in Workers |-> {}]
  /\ heardW = [w \in Workers |-> {}]
  /\ resumedSince = [w \in Workers |-> FALSE]
  /\ nbc = 0 /\ ncmd = k /\ ndrain = d
  /\ tracing = traced
  /\ snap = [c \in Conns |-> <<>>]
  /\ carried = [w \in Workers |-> <<>>]
  /\ terminal = [w \in Workers |-> <<>>]
  /\ stopHeard = [w \in Workers |-> FALSE]
  /\ reports = [w \in Workers |-> 0]
  /\ shown = [w \in Workers |-> 0]

\* a run_research task that has been spawned and has not ended
Active(w) == pc[w] \notin {"off", "unspawned", "done", "escaped"}

\* task t calls broadcast with a message of kind k in this step
Issued(t, k) == bc'[t].kind = k /\ bc'[t].id # bc[t].id

\* a ws_handler is about to handle a stop command
StopStep == \E c \in Conns : cur = c /\ pc[c] = "got" /\ msg[c].action = "stop"

\* the history of the runs, brought up to date by every step
Audit ==
  /\ terminal' = [w \in Workers |->
                    IF ~tracing THEN terminal[w]
                    ELSE IF Issued(w, "result") THEN Append(terminal[w], "result")
                    ELSE IF Issued(w, "error") THEN Append(terminal[w], "error")
                    ELSE terminal[w]]
  /\ stopHeard' = [w \in Workers |->
                     stopHeard[w] \/ (tracing /\ StopStep /\ Active(w))]
  /\ reports' = [w \in Workers |->
                   IF tracing /\ pc[w] # "rep_log" /\ pc'[w] = "rep_log"
                     THEN reports[w] + 1 ELSE reports[w]]
  /\ shown' = [w \in Workers |->
                 IF tracing /\ bc[w].kind = "finding" /\ bc[w].sent = {}
                            /\ bc'[w].kind = "finding" /\ bc'[w].sent # {}
                   THEN shown[w] + 1 ELSE shown[w]]

(***************************************************************************)
(* Event loop                                                              *)
(***************************************************************************)
\* BaseEventLoop._run_once: run the next ready handle
Dispatch ==
  /\ cur = NoTask /\ ready # <<>>
  /\ cur' = Head(ready) /\ ready' = Tail(ready)
  /\ UNCHANGED <<ctl, net, pc, bc, msg, loc, obs, cnt>>
  /\ UNCHANGED <<tracing, pay>>
  /\ Audit

(***************************************************************************)
(* broadcast (server.py 15-24)                                             *)
(***************************************************************************)
\* the call: dead = set(); iter(connections) remembers the set's size
NewBc(kind) ==
  [st |-> "iter", id |-> Count, kind |-> kind, pos |-> 0,
   used |-> Cardinality(connections), dead |-> {}, sent |-> {}]

\* set iterator: "Set changed size during iteration" is raised by next()
SetChanged(f) == Cardinality(connections) # f.used

\* what is left to visit, in the (fixed) table order of the set
Rest(f) == {c \in connections : c > f.pos}

\* except: dead.add(ws)
MarkDead(f, c) == [f EXCEPT !.pos = c, !.dead = @ \cup {c}]

\* connections.difference_update(dead)
DropDead(f) == connections \ f.dead

\* one turn of "for ws in connections": next(), then await ws.send_str(msg)
BcNext(t) ==
  /\ cur = t /\ bc[t].st = "iter"
  /\ UNCHANGED <<ctl, open, ready, pc, msg, loc, obs, nbc, ncmd>>
  /\ IF SetChanged(bc[t])
       THEN /\ bc' = [bc EXCEPT ![t].st = "exc"]
            /\ UNCHANGED <<connections, inbox, cur, ndrain>>
     ELSE IF Rest(bc[t]) = {}
       THEN /\ connections' = DropDead(bc[t])
            /\ bc' = [bc EXCEPT ![t].st = "ret"]
            /\ UNCHANGED <<inbox, cur, ndrain>>
     ELSE LET c == Min(Rest(bc[t])) IN
       IF open[c] # "open"
         THEN /\ bc' = [bc EXCEPT ![t] = MarkDead(@, c)]
              /\ UNCHANGED <<connections, inbox, cur, ndrain>>
         ELSE /\ inbox' = [inbox EXCEPT ![c] = IF tracing THEN Append(@, bc[t].id) ELSE @]
              /\ UNCHANGED connections
              /\ \/ /\ bc' = [bc EXCEPT ![t].pos = c, ![t].sent = @ \cup {c}]
                    /\ UNCHANGED <<cur, ndrain>>
                 \/ /\ ndrain > 0
                    /\ bc' = [bc EXCEPT ![t].pos = c, ![t].sent = @ \cup {c},
                                        ![t].st = "drain"]
                    /\ cur' = NoTask /\ ndrain' = ndrain - 1
  /\ UNCHANGED <<tracing, pay>>
  /\ Audit

\* the transport drained, or the connection was lost: the send's waiter is woken
DrainDone(t) ==
  /\ cur = NoTask /\ bc[t].st = "drain"
  /\ bc' = [bc EXCEPT ![t].st = "drained"]
  /\ ready' = Append(ready, t)
  /\ UNCHANGED <<ctl, net, cur, pc, msg, loc, obs, cnt>>
  /\ UNCHANGED <<tracing, pay>>
  /\ Audit

\* send_str resumes: it raises if the connection was lost meanwhile
BcResume(t) ==
  /\ cur = t /\ bc[t].st = "drained"
  /\ bc' = [bc EXCEPT ![t] = IF open[@.pos] = "open" THEN [@ EXCEPT !.st = "iter"]
                               ELSE [MarkDead(@, @.pos) EXCEPT !.st = "iter"]]
  /\ UNCHANGED <<ctl, net, ready, cur, pc, msg, loc, obs, cnt>>
  /\ UNCHANGED <<tracing, pay>>
  /\ Audit

(***************************************************************************)
(* ws_handler and handle_ws_message (server.py 27-86)                      *)
(***************************************************************************)
Cmd(a, x) == [action |-> a, arg |-> x]
Cmds == {Cmd("start", "task"), Cmd("start", ""), Cmd("pause", ""), Cmd("resume", ""),
         Cmd("stop", ""), Cmd("human_input", "")}
          \cup {Cmd("human_input", x) : x \in Texts}

\* workers whose current ask_human call has sent its question out
Asking == {w \in Workers : \/ pc[w] = "ask_log" /\ bc[w].sent # {}
                           \/ pc[w] \in {"ask_armed", "ask_wait"}}

\* a start command needs a worker slot of the model
Admit(m) ==
  /\ ncmd > 0
  /\ (m.action = "start" /\ m.arg # "") =>
        Cardinality({c \in Conns : pc[c] = "got" /\ msg[c].action = "start"
                                      /\ msg[c].arg # ""})
          < Cardinality({w \in Workers : pc[w] = "unspawned"})

Stamp(m) == [action |-> m.action, arg |-> m.arg, aft |-> Asking]

\* a client connects: aiohttp runs ws_handler for it in a task of its own
Connect(c) ==
  /\ cur = NoTask /\ pc[c] = "absent"
  /\ pc' = [pc EXCEPT ![c] = "prepared"]
  /\ open' = [open EXCEPT ![c] = "open"]
  /\ ready' = Append(ready, c)
  /\ UNCHANGED <<ctl, connections, inbox, cur, bc, msg, loc, obs, cnt>>
  /\ UNCHANGED <<tracing, pay>>
  /\ Audit

\* the peer closes or is lost; a handler waiting in "async for" is woken
Close(c) ==
  /\ cur = NoTask /\ open[c] = "open"
  /\ open' = [open EXCEPT ![c] = "closed"]
  /\ IF pc[c] = "recv"
       THEN pc' = [pc EXCEPT ![c] = "loop"] /\ ready' = Append(ready, c)
       ELSE UNCHANGED <<pc, ready>>
  /\ UNCHANGED <<ctl, connections, inbox, cur, bc, msg, loc, obs, cnt>>
  /\ UNCHANGED <<tracing, pay>>
  /\ Audit

\* a snapshot that says what the controller was at first
SnapshotStale == [running |-> FALSE, paused |-> FALSE, findings |-> <<>>]

\* ws_handler 38-43: json.dumps of the state snapshot
Snapshot == [running |-> running, paused |-> paused, findings |-> findings]

\* ws_handler 29-43: connections.add(ws), set_log_callback, send the snapshot
Register(c) ==
  /\ cur = c /\ pc[c] = "prepared"
  /\ connections' = connections \cup {c}
  /\ log_callback' = TRUE
  /\ IF open[c] # "open"
       THEN /\ pc' = [pc EXCEPT ![c] = "failed"] /\ cur' = NoTask
            /\ UNCHANGED <<inbox, ndrain, snap>>
       ELSE /\ inbox' = [inbox EXCEPT ![c] = IF tracing THEN Append(@, 0) ELSE @]
            /\ snap' = [snap EXCEPT ![c] = IF tracing THEN Append(@, Snapshot) ELSE @]
            /\ \/ pc' = [pc EXCEPT ![c] = "loop"] /\ UNCHANGED <<cur, ndrain>>
               \/ /\ ndrain > 0
                  /\ pc' = [pc EXCEPT ![c] = "snap_drain"]
                  /\ cur' = NoTask /\ ndrain' = ndrain - 1
  /\ UNCHANGED <<running, paused, stop_requested, human_response,
                 human_response_event, resume_event, findings, open, ready, bc,
                 msg, loc, obs, nbc, ncmd>>
  /\ UNCHANGED <<tracing, carried>>
  /\ Audit

SnapDrainDone(c) ==
  /\ cur = NoTask /\ pc[c] = "snap_drain"
  /\ pc' = [pc EXCEPT ![c] = "snap_rdy"]
  /\ ready' = Append(ready, c)
  /\ UNCHANGED <<ctl, net, cur, bc, msg, loc, obs, cnt>>
  /\ UNCHANGED <<tracing, pay>>
  /\ Audit

SnapResume(c) ==
  /\ cur = c /\ pc[c] = "snap_rdy"
  /\ IF open[c] = "open"
       THEN pc' = [pc EXCEPT ![c] = "loop"] /\ UNCHANGED cur
       ELSE pc' = [pc EXCEPT ![c] = "failed"] /\ cur' = NoTask
  /\ UNCHANGED <<ctl, net, ready, bc, msg, loc, obs, cnt>>
  /\ UNCHANGED <<tracing, pay>>
  /\ Audit

\* ws_handler 45-50: "async for msg in ws" -- the socket is closed (finally:
\* connections.discard), a message is already buffered, or the task suspends
Loop(c, M) ==
  /\ cur = c /\ pc[c] = "loop"
  /\ IF open[c] # "open"
       THEN /\ connections' = connections \ {c}
            /\ pc' = [pc EXCEPT ![c] = "gone"] /\ cur' = NoTask
            /\ UNCHANGED <<msg, ncmd>>
       ELSE /\ UNCHANGED connections
            /\ \/ /\ pc' = [pc EXCEPT ![c] = "recv"] /\ cur' = NoTask
                  /\ UNCHANGED <<msg, ncmd>>
               \/ \E m \in M :
                    /\ Admit(m)
                    /\ msg' = [msg EXCEPT ![c] = Stamp(m)]
                    /\ pc' = [pc EXCEPT ![c] = "got"]
                    /\ ncmd' = ncmd - 1
                    /\ UNCHANGED cur
  /\ UNCHANGED <<ctl, open, inbox, ready, bc, loc, obs, nbc, ndrain>>
  /\ UNCHANGED <<tracing, pay>>
  /\ Audit

\* a text frame arrives for a handler suspended in "async for"
Arrive(c, m) ==
  /\ cur = NoTask /\ pc[c] = "recv" /\ open[c] = "open"
  /\ Admit(m)
  /\ msg' = [msg EXCEPT ![c] = Stamp(m)]
  /\ pc' = [pc EXCEPT ![c] = "got"]
  /\ ready' = Append(ready, c)
  /\ ncmd' = ncmd - 1
  /\ UNCHANGED <<ctl, net, cur, bc, loc, obs, nbc, ndrain>>
  /\ UNCHANGED <<tracing, pay>>
  /\ Audit

\* asyncio.Event.set(): every waiter's future is resolved, its task made ready
Waiters(at) == {w \in Workers : pc[w] = at}

\* handle_ws_message 59-63
StartGuard(m) == ~running /\ m.arg # ""

HandleStart(c) ==
  /\ cur = c /\ pc[c] = "got" /\ msg[c].action = "start"
  /\ IF StartGuard(msg[c])
       THEN LET w == Min({x \in Workers : pc[x] = "unspawned"}) IN
            /\ pc' = [pc EXCEPT ![w] = "spawned", ![c] = "h_bc1"]
            /\ ready' = Append(ready, w)
            /\ bc' = [bc EXCEPT ![c] = NewBc("state")]
            /\ nbc' = Count
       ELSE /\ pc' = [pc EXCEPT ![c] = "loop"]
            /\ UNCHANGED <<ready, bc, nbc>>
  /\ UNCHANGED <<ctl, net, cur, loc, obs, ncmd, ndrain>>
  /\ msg' = [msg EXCEPT ![c] = NoMsg]
  /\ UNCHANGED <<tracing, pay>>
  /\ Audit

\* handle_ws_message 65-68
HandlePause(c) ==
  /\ cur = c /\ pc[c] = "got" /\ msg[c].action = "pause"
  /\ paused' = TRUE
  /\ pc' = [pc EXCEPT ![c] = "h_bc2"]
  /\ bc' = [bc EXCEPT ![c] = NewBc("state")]
  /\ nbc' = Count
  /\ UNCHANGED <<running, stop_requested, human_response, human_response_event,
                 resume_event, findings, log_callback, net, ready, cur, loc, obs, ncmd, ndrain>>
  /\ msg' = [msg EXCEPT ![c] = NoMsg]
  /\ UNCHANGED <<tracing, pay>>
  /\ Audit

\* handle_ws_message 70-74
HandleResume(c) ==
  /\ cur = c /\ pc[c] = "got" /\ msg[c].action = "resume"
  /\ paused' = FALSE
  /\ resume_event' = TRUE
  /\ \E s \in Orders(Waiters("wait_resume")) : ready' = ready \o s
  /\ pc' = [t \in Tasks |-> IF t = c THEN "h_bc2"
                            ELSE IF pc[t] = "wait_resume" THEN "resumed" ELSE pc[t]]
  /\ resumedSince' = [w \in Workers |->
                        resumedSince[w] \/ pc[w] \in {"cp_log", "wait_resume"}]
  /\ bc' = [bc EXCEPT ![c] = NewBc("state")]
  /\ nbc' = Count
  /\ UNCHANGED <<running, stop_requested, human_response, human_response_event,
                 findings, log_callback, net, cur, loc, heard, heardW,
                 ncmd, ndrain>>
  /\ msg' = [msg EXCEPT ![c] = NoMsg]
  /\ UNCHANGED <<tracing, pay>>
  /\ Audit

\* handle_ws_message 76-79
HandleStop(c) ==
  /\ cur = c /\ pc[c] = "got" /\ msg[c].action = "stop"
  /\ stop_requested' = TRUE
  /\ resume_event' = TRUE
  /\ \E s \in Orders(Waiters("wait_resume")) : ready' = ready \o s
  /\ pc' = [t \in Tasks |-> IF t = c THEN "h_bc1"
                            ELSE IF pc[t] = "wait_resume" THEN "resumed" ELSE pc[t]]
  /\ bc' = [bc EXCEPT ![c] = NewBc("log")]
  /\ nbc' = Count
  /\ UNCHANGED <<running, paused, human_response, human_response_event,
                 findings, log_callback, net, cur, loc, obs, ncmd, ndrain>>
  /\ msg' = [msg EXCEPT ![c] = NoMsg]
  /\ UNCHANGED <<tracing, pay>>
  /\ Audit

\* handle_ws_message 81-86
HandleHumanInput(c) ==
  /\ cur = c /\ pc[c] = "got" /\ msg[c].action = "human_input"
  /\ IF msg[c].arg # ""
       THEN /\ human_response' = msg[c].arg
            /\ human_response_event' = TRUE
            /\ \E s \in Orders(Waiters("ask_wait")) : ready' = ready \o s
            /\ pc' = [t \in Tasks |-> IF t = c THEN "h_bc1"
                                      ELSE IF pc[t] = "ask_wait" THEN "ask_woken"
                                      ELSE pc[t]]
            /\ heard' = [w \in Workers |->
                           IF w \in msg[c].aft /\ w \in Asking
                             THEN heard[w] \cup {msg[c].arg} ELSE heard[w]]
            /\ heardW' = [w \in Workers |->
                            IF pc[w] = "ask_wait"
                              THEN heardW[w] \cup {msg[c].arg} ELSE heardW[w]]
            /\ bc' = [bc EXCEPT ![c] = NewBc("log")]
            /\ nbc' = Count
       ELSE /\ pc' = [pc EXCEPT ![c] = "loop"]
            /\ UNCHANGED <<human_response, human_response_event, ready, heard,
                           heardW, bc, nbc>>
  /\ UNCHANGED <<running, paused, stop_requested, resume_event, findings,
                 log_callback, net, cur, loc, resumedSince, ncmd, ndrain>>
  /\ msg' = [msg EXCEPT ![c] = NoMsg]
  /\ UNCHANGED <<tracing, pay>>
  /\ Audit

\* a broadcast of the handler returned: the next statement of the branch
HandlerBcRet(c) ==
  /\ cur = c /\ pc[c] \in {"h_bc2", "h_bc1"} /\ bc[c].st = "ret"
  /\ IF pc[c] = "h_bc2"
       THEN /\ bc' = [bc EXCEPT ![c] = NewBc("log")]
            /\ nbc' = Count
            /\ pc' = [pc EXCEPT ![c] = "h_bc1"]
       ELSE /\ bc' = [bc EXCEPT ![c] = NoBc]
            /\ pc' = [pc EXCEPT ![c] = "loop"]
            /\ UNCHANGED nbc
  /\ UNCHANGED <<ctl, net, ready, cur, msg, loc, obs, ncmd, ndrain>>
  /\ UNCHANGED <<tracing, pay>>
  /\ Audit

\* a broadcast of the handler raised: ws_handler's finally discards the socket
\* and the exception leaves the handler, which ends the connection
HandlerBcExc(c) ==
  /\ cur = c /\ pc[c] \in {"h_bc2", "h_bc1"} /\ bc[c].st = "exc"
  /\ connections' = connections \ {c}
  /\ open' = [open EXCEPT ![c] = "closed"]
  /\ pc' = [pc EXCEPT ![c] = "failed"]
  /\ bc' = [bc EXCEPT ![c] = NoBc]
  /\ cur' = NoTask
  /\ UNCHANGED <<ctl, inbox, ready, msg, loc, obs, cnt>>
  /\ UNCHANGED <<tracing, pay>>
  /\ Audit

(***************************************************************************)
(* run_research (server.py 89-108) and EbayResearchAgent.run (agent.py)    *)
(***************************************************************************)
\* run_research 91-93
RunPrologue ==
  /\ running' = TRUE
  /\ stop_requested' = FALSE
  /\ findings' = <<>>

\* run_research 91-97: first slice of the task; EbayResearchAgent(controller)
\* raises when the API key is not configured
RunStart(w) ==
  /\ cur = w /\ pc[w] = "spawned"
  /\ RunPrologue
  /\ \/ /\ pc' = [pc EXCEPT ![w] = "rr_start"]
        /\ bc' = [bc EXCEPT ![w] = NewBc("log")]
     \/ /\ pc' = [pc EXCEPT ![w] = "rr_error"]
        /\ bc' = [bc EXCEPT ![w] = NewBc("error")]
  /\ nbc' = Count
  /\ UNCHANGED <<paused, human_response, human_response_event, resume_event,
                 log_callback, net, ready, cur, msg, loc, obs, ncmd, ndrain>>
  /\ UNCHANGED <<tracing, pay>>
  /\ Audit

\* run_research 97-99: the "Starting" broadcast is over; agent.run suspends in
\* the browser, or the broadcast raised into "except Exception"
RunStarted(w) ==
  /\ cur = w /\ pc[w] = "rr_start" /\ bc[w].st \in {"ret", "exc"}
  /\ IF bc[w].st = "ret"
       THEN /\ pc' = [pc EXCEPT ![w] = "agent_io"]
            /\ bc' = [bc EXCEPT ![w] = NoBc]
            /\ cur' = NoTask /\ UNCHANGED nbc
       ELSE /\ pc' = [pc EXCEPT ![w] = "rr_error"]
            /\ bc' = [bc EXCEPT ![w] = NewBc("error")]
            /\ nbc' = Count /\ UNCHANGED cur
  /\ UNCHANGED <<ctl, net, ready, msg, loc, obs, ncmd, ndrain>>
  /\ UNCHANGED <<tracing, pay>>
  /\ Audit

\* the awaited browser / page operation of the agent completes
AgentWake(w) ==
  /\ cur = NoTask /\ pc[w] = "agent_io"
  /\ pc' = [pc EXCEPT ![w] = "agent_rdy"]
  /\ ready' = Append(ready, w)
  /\ UNCHANGED <<ctl, net, cur, bc, msg, loc, obs, cnt>>
  /\ UNCHANGED <<tracing, pay>>
  /\ Audit

\* the agent calls the registered action check_continue (controller.py 127-136)
CallCheck(w) ==
  /\ cur = w /\ pc[w] = "agent_rdy" /\ steps[w] > 0
  /\ pc' = [pc EXCEPT ![w] = "cp_call"]
  /\ steps' = [steps EXCEPT ![w] = @ - 1]
  /\ chk' = [chk EXCEPT ![w] = None]
  /\ resumedSince' = [resumedSince EXCEPT ![w] = FALSE]
  /\ UNCHANGED <<ctl, net, ready, cur, bc, msg, askres, pendexc, heard, heardW, cnt>>
  /\ UNCHANGED <<tracing, pay>>
  /\ Audit

\* back in the agent, which goes on with its own awaits
ToAgent(w) ==
  /\ pc' = [pc EXCEPT ![w] = "agent_io"]
  /\ bc' = [bc EXCEPT ![w] = NoBc]
  /\ cur' = NoTask

\* check_pause 37-38
StopCheck == stop_requested

\* check_pause 40
PauseCheck == paused

\* check_pause 37-42
CheckPause(w) ==
  /\ cur = w /\ pc[w] = "cp_call"
  /\ IF StopCheck
       THEN /\ chk' = [chk EXCEPT ![w] = "stopped"]
            /\ ToAgent(w)
            /\ UNCHANGED <<resume_event, nbc>>
     ELSE IF PauseCheck
       THEN /\ resume_event' = FALSE
            /\ pc' = [pc EXCEPT ![w] = "cp_log"]
            /\ bc' = [bc EXCEPT ![w] = IF log_callback THEN NewBc("log")
                                       ELSE [NoBc EXCEPT !.st = "ret"]]
            /\ nbc' = IF log_callback THEN Count ELSE nbc
            /\ UNCHANGED <<chk, cur>>
     ELSE /\ chk' = [chk EXCEPT ![w] = "normal"]
          /\ ToAgent(w)
          /\ UNCHANGED <<resume_event, nbc>>
  /\ UNCHANGED <<running, paused, stop_requested, human_response,
                 human_response_event, findings, log_callback, net, ready, msg,
                 askres, pendexc, steps, obs, ncmd, ndrain>>
  /\ UNCHANGED <<tracing, pay>>
  /\ Audit

\* check_pause 43: Event.wait() returns at once when the event is set
\* (the log broadcast of line 42 may also have raised)
CheckWait(w) ==
  /\ cur = w /\ pc[w] = "cp_log" /\ bc[w].st \in {"ret", "exc"}
  /\ IF bc[w].st = "exc"
       THEN chk' = [chk EXCEPT ![w] = "exc"] /\ ToAgent(w)
     ELSE IF resume_event
       THEN chk' = [chk EXCEPT ![w] = "normal"] /\ ToAgent(w)
     ELSE /\ pc' = [pc EXCEPT ![w] = "wait_resume"]
          /\ bc' = [bc EXCEPT ![w] = NoBc]
          /\ cur' = NoTask
          /\ UNCHANGED chk
  /\ UNCHANGED <<ctl, net, ready, msg, askres, pendexc, steps, obs, cnt>>
  /\ UNCHANGED <<tracing, pay>>
  /\ Audit

\* check_pause 43: the waiter was woken by resume_event.set()
CheckResumed(w) ==
  /\ cur = w /\ pc[w] = "resumed"
  /\ chk' = [chk EXCEPT ![w] = "normal"]
  /\ ToAgent(w)
  /\ UNCHANGED <<ctl, net, ready, msg, askres, pendexc, steps, obs, cnt>>
  /\ UNCHANGED <<tracing, pay>>
  /\ Audit

\* the agent calls the registered action ask_human_action; ask_human 47
CallAsk(w) ==
  /\ cur = w /\ pc[w] = "agent_rdy" /\ steps[w] > 0
  /\ steps' = [steps EXCEPT ![w] = @ - 1]
  /\ askres' = [askres EXCEPT ![w] = None]
  /\ heard' = [heard EXCEPT ![w] = {}]
  /\ heardW' = [heardW EXCEPT ![w] = {}]
  /\ pc' = [pc EXCEPT ![w] = "ask_log"]
  /\ bc' = [bc EXCEPT ![w] = IF log_callback THEN NewBc("question")
                             ELSE [NoBc EXCEPT !.st = "ret"]]
  /\ nbc' = IF log_callback THEN Count ELSE nbc
  /\ UNCHANGED <<ctl, net, ready, cur, msg, chk, pendexc, resumedSince, ncmd, ndrain>>
  /\ UNCHANGED <<tracing, pay>>
  /\ Audit

\* the reset of lines 49-50 left out
AskResetMissing == UNCHANGED <<human_response, human_response_event>>

\* ask_human 49-50
AskReset ==
  /\ human_response' = None
  /\ human_response_event' = FALSE

\* ask_human 47-50: the question log is over (it may have raised)
AskClear(w) ==
  /\ cur = w /\ pc[w] = "ask_log" /\ bc[w].st \in {"ret", "exc"}
  /\ IF bc[w].st = "exc"
       THEN /\ askres' = [askres EXCEPT ![w] = "exc"]
            /\ ToAgent(w)
            /\ UNCHANGED <<human_response, human_response_event>>
       ELSE /\ AskReset
            /\ pc' = [pc EXCEPT ![w] = "ask_armed"]
            /\ bc' = [bc EXCEPT ![w] = NoBc]
            /\ UNCHANGED <<askres, cur>>
  /\ UNCHANGED <<running, paused, stop_requested, resume_event, findings,
                 log_callback, net, ready, msg, chk, pendexc, steps, obs, cnt>>
  /\ UNCHANGED <<tracing, pay>>
  /\ Audit

\* ask_human 60: response = self.human_response or "Continue"
Answer == IF human_response = None THEN CONTINUE ELSE human_response

\* ask_human 52-62: wait_for(human_response_event.wait(), 300) suspends unless
\* the event is set
AskWait(w) ==
  /\ cur = w /\ pc[w] = "ask_armed"
  /\ IF human_response_event
       THEN /\ askres' = [askres EXCEPT ![w] = Answer]
            /\ human_response' = None
            /\ ToAgent(w)
       ELSE /\ pc' = [pc EXCEPT ![w] = "ask_wait"]
            /\ cur' = NoTask
            /\ UNCHANGED <<askres, human_response, bc>>
  /\ UNCHANGED <<running, paused, stop_requested, human_response_event,
                 resume_event, findings, log_callback, net, ready, msg, chk,
                 pendexc, steps, obs, cnt>>
  /\ UNCHANGED <<tracing, pay>>
  /\ Audit

\* the 300 s timer of wait_for fires before the event is set
AskTimeout(w) ==
  /\ cur = NoTask /\ pc[w] = "ask_wait"
  /\ pc' = [pc EXCEPT ![w] = "ask_timeout"]
  /\ ready' = Append(ready, w)
  /\ UNCHANGED <<ctl, net, cur, bc, msg, loc, obs, cnt>>
  /\ UNCHANGED <<tracing, pay>>
  /\ Audit

\* ask_human 57-62
AskReturn(w) ==
  /\ cur = w /\ pc[w] \in {"ask_woken", "ask_timeout"}
  /\ IF pc[w] = "ask_timeout"
       THEN /\ askres' = [askres EXCEPT ![w] = FALLBACK]
            /\ UNCHANGED human_response
       ELSE /\ askres' = [askres EXCEPT ![w] = Answer]
            /\ human_response' = None
  /\ ToAgent(w)
  /\ UNCHANGED <<running, paused, stop_requested, human_response_event,
                 resume_event, findings, log_callback, net, ready, msg, chk,
                 pendexc, steps, obs, cnt>>
  /\ UNCHANGED <<tracing, pay>>
  /\ Audit

\* the agent calls the registered action report_item (controller.py 104-121):
\* add_finding, then the "finding" log
CallReport(w, title) ==
  /\ cur = w /\ pc[w] = "agent_rdy" /\ steps[w] > 0
  /\ steps' = [steps EXCEPT ![w] = @ - 1]
  /\ findings' = Append(findings, title)
  /\ pc' = [pc EXCEPT ![w] = "rep_log"]
  /\ bc' = [bc EXCEPT ![w] = IF log_callback THEN NewBc("finding")
                             ELSE [NoBc EXCEPT !.st = "ret"]]
  /\ nbc' = IF log_callback THEN Count ELSE nbc
  /\ UNCHANGED <<running, paused, stop_requested, human_response,
                 human_response_event, resume_event, log_callback, net, ready,
                 cur, msg, chk, askres, pendexc, obs, ncmd, ndrain>>
  /\ UNCHANGED <<tracing, pay>>
  /\ Audit

ReportDone(w) ==
  /\ cur = w /\ pc[w] = "rep_log" /\ bc[w].st \in {"ret", "exc"}
  /\ ToAgent(w)
  /\ UNCHANGED <<ctl, net, ready, msg, loc, obs, cnt>>
  /\ UNCHANGED <<tracing, pay>>
  /\ Audit

\* agent.run 154-172: Agent.run is over.  It returned (the token log follows),
\* it ended on the stop it was told of (no log), or it raised (the error log
\* follows); "finally" then closes the browser
AgentEnd(w) ==
  /\ cur = w /\ pc[w] = "agent_rdy"
  /\ \/ /\ pc' = [pc EXCEPT ![w] = "tok_log"]
        /\ bc' = [bc EXCEPT ![w] = NewBc("log")]
        /\ nbc' = Count /\ UNCHANGED cur
     \/ /\ chk[w] = "stopped"
        /\ pc' = [pc EXCEPT ![w] = "closing_ret"]
        /\ cur' = NoTask /\ UNCHANGED <<bc, nbc>>
     \/ /\ pc' = [pc EXCEPT ![w] = "err_log"]
        /\ bc' = [bc EXCEPT ![w] = NewBc("error")]
        /\ nbc' = Count /\ UNCHANGED cur
  /\ UNCHANGED <<ctl, net, ready, msg, loc, obs, ncmd, ndrain>>
  /\ UNCHANGED <<tracing, pay>>
  /\ Audit

\* agent.run 157-172: after the token log, or after the error log
AgentLogged(w) ==
  /\ cur = w /\ pc[w] \in {"tok_log", "err_log"} /\ bc[w].st \in {"ret", "exc"}
  /\ IF pc[w] = "tok_log" /\ bc[w].st = "exc"
       THEN /\ pc' = [pc EXCEPT ![w] = "err_log"]
            /\ bc' = [bc EXCEPT ![w] = NewBc("error")]
            /\ nbc' = Count /\ UNCHANGED cur
       ELSE /\ pc' = [pc EXCEPT ![w] = IF pc[w] = "tok_log" THEN "closing_ret"
                                       ELSE "closing_exc"]
            /\ bc' = [bc EXCEPT ![w] = NoBc]
            /\ cur' = NoTask /\ UNCHANGED nbc
  /\ UNCHANGED <<ctl, net, ready, msg, loc, obs, ncmd, ndrain>>
  /\ UNCHANGED <<tracing, pay>>
  /\ Audit

\* browser.close() completes
BrowserClosed(w) ==
  /\ cur = NoTask /\ pc[w] \in {"closing_ret", "closing_exc"}
  /\ pc' = [pc EXCEPT ![w] = IF pc[w] = "closing_ret" THEN "closed_ret" ELSE "closed_exc"]
  /\ ready' = Append(ready, w)
  /\ UNCHANGED <<ctl, net, cur, bc, msg, loc, obs, cnt>>
  /\ UNCHANGED <<tracing, pay>>
  /\ Audit

\* run_research 99-105: agent.run returned or raised
RunOutcome(w) ==
  /\ cur = w /\ pc[w] \in {"closed_ret", "closed_exc"}
  /\ IF pc[w] = "closed_ret"
       THEN /\ pc' = [pc EXCEPT ![w] = "rr_complete"]
            /\ bc' = [bc EXCEPT ![w] = NewBc("log")]
       ELSE /\ pc' = [pc EXCEPT ![w] = "rr_error"]
            /\ bc' = [bc EXCEPT ![w] = NewBc("error")]
  /\ nbc' = Count
  /\ UNCHANGED <<ctl, net, ready, cur, msg, loc, obs, ncmd, ndrain>>
  /\ UNCHANGED <<tracing, pay>>
  /\ Audit

\* "finally" that does not reset running
FinallyKeepsRunning(w, exc) ==
  /\ UNCHANGED running
  /\ pendexc' = [pendexc EXCEPT ![w] = exc]
  /\ pc' = [pc EXCEPT ![w] = "rr_state"]
  /\ bc' = [bc EXCEPT ![w] = NewBc("state")]
  /\ nbc' = Count

\* run_research 106-108: running = False, then the state broadcast; exc says
\* whether an exception is waiting to leave the function after "finally"
Finally(w, exc) ==
  /\ running' = FALSE
  /\ pendexc' = [pendexc EXCEPT ![w] = exc]
  /\ pc' = [pc EXCEPT ![w] = "rr_state"]
  /\ bc' = [bc EXCEPT ![w] = NewBc("state")]
  /\ nbc' = Count

\* run_research 101-108: what follows a broadcast of the try or except block
RunNext(w) ==
  /\ cur = w /\ pc[w] \in {"rr_complete", "rr_result", "rr_error"}
  /\ bc[w].st \in {"ret", "exc"}
  /\ IF pc[w] = "rr_error"
       THEN Finally(w, bc[w].st = "exc")
     ELSE IF bc[w].st = "exc"
       THEN /\ pc' = [pc EXCEPT ![w] = "rr_error"]
            /\ bc' = [bc EXCEPT ![w] = NewBc("error")]
            /\ nbc' = Count
            /\ UNCHANGED <<running, pendexc>>
     ELSE IF pc[w] = "rr_complete"
       THEN /\ pc' = [pc EXCEPT ![w] = "rr_result"]
            /\ bc' = [bc EXCEPT ![w] = NewBc("result")]
            /\ nbc' = Count
            /\ UNCHANGED <<running, pendexc>>
     ELSE Finally(w, FALSE)
  /\ UNCHANGED <<paused, stop_requested, human_response, human_response_event,
                 resume_event, findings, log_callback, net, ready, cur, msg,
                 chk, askres, steps, obs, ncmd, ndrain>>
  \* line 102: the result message carries controller.findings
  /\ carried' = [carried EXCEPT ![w] =
                  IF tracing /\ pc[w] = "rr_complete" /\ bc[w].st = "ret"
                    THEN Append(@, findings) ELSE @]
  /\ UNCHANGED <<tracing, snap>>
  /\ Audit

\* run_research 108: the task ends, normally or with an exception nobody awaits
RunEnd(w) ==
  /\ cur = w /\ pc[w] = "rr_state" /\ bc[w].st \in {"ret", "exc"}
  /\ pc' = [pc EXCEPT ![w] = IF pendexc[w] \/ bc[w].st = "exc" THEN "escaped" ELSE "done"]
  /\ bc' = [bc EXCEPT ![w] = NoBc]
  /\ cur' = NoTask
  /\ UNCHANGED <<ctl, net, ready, msg, loc, obs, cnt>>
  /\ UNCHANGED <<tracing, pay>>
  /\ Audit

(***************************************************************************)
(* Specification                                                           *)
(***************************************************************************)
\* bounds of the scenarios
NoDrains == 0
MaxCmds == 2
MaxSteps == 1
MaxDrains == 1
StartConns == 2
StartWorkers == 2
StartCmds == 2
StartSteps == 0
StartDrains == 1
PauseConns == 1
PauseWorkers == 2
PauseCmds == 5
PauseSteps == 1
PauseDrains == 1
AskConns == 1
AskWorkers == 1
AskCmds == 2
AskSteps == 1
AskDrains == 1
BusConns == 2
BusWorkers == 0
BusSteps == 0
BusCmds == 2
BusDrains == 1
RunConns == 1
RunWorkers == 1
RunCmds == 2
RunSteps == 1
RunDrains == 1
TermConns == 1
TermWorkers == 1
TermCmds == 1
TermSteps == 0
TermDrains == 1
JoinConns == 2
JoinWorkers == 0
JoinCmds == 1
JoinSteps == 0
JoinDrains == 1
QuestConns == 1
QuestWorkers == 1
QuestCmds == 2
QuestSteps == 1
QuestDrains == 1
HaltConns == 1
HaltWorkers == 1
HaltCmds == 2
HaltSteps == 1
HaltDrains == 1
FindConns == 1
FindWorkers == 3
FindCmds == 3
FindSteps == 1

\* what the outside world does: sockets connect and close, frames arrive
Arrivals(M) ==
  \E c \in Conns : Connect(c) \/ (\E m \in M : Arrive(c, m))

Inputs(M) == Arrivals(M) \/ (\E c \in Conns : Close(c))

\* the event loop, broadcast and the ws_handler tasks
Serve(M) ==
  \/ Dispatch
  \/ \E t \in Tasks : BcNext(t) \/ DrainDone(t) \/ BcResume(t)
  \/ \E c \in Conns :
       \/ Register(c) \/ SnapDrainDone(c) \/ SnapResume(c)
       \/ Loop(c, M) \/ HandlerBcRet(c) \/ HandlerBcExc(c)

Net(M) == Inputs(M) \/ Serve(M)

\* the same when no send has to wait for its transport
ServeAtOnce(M) ==
  \/ Dispatch
  \/ \E t \in Tasks : BcNext(t)
  \/ \E c \in Conns : Register(c) \/ Loop(c, M) \/ HandlerBcRet(c)

Run ==
  \E w \in Workers :
    \/ RunStart(w) \/ RunStarted(w) \/ AgentWake(w) \/ AgentEnd(w)
    \/ AgentLogged(w) \/ BrowserClosed(w) \/ RunOutcome(w) \/ RunNext(w)
    \/ RunEnd(w)

PauseOps ==
  \/ \E c \in Conns : HandlePause(c) \/ HandleResume(c) \/ HandleStop(c)
  \/ \E w \in Workers : CallCheck(w) \/ CheckPause(w) \/ CheckWait(w) \/ CheckResumed(w)

AskOps ==
  \/ \E c \in Conns : HandleHumanInput(c)
  \/ \E w \in Workers : CallAsk(w) \/ AskClear(w) \/ AskWait(w) \/ AskTimeout(w) \/ AskReturn(w)

ReportOps ==
  \E w \in Workers : (\E x \in Titles : CallReport(w, x)) \/ ReportDone(w)

Next ==
  \/ Net(Cmds)
  \/ \E c \in Conns : HandleStart(c)
  \/ Run \/ PauseOps \/ AskOps \/ ReportOps


Init == Scenario(NConn, MaxWorkers, MaxCmds, MaxSteps, MaxDrains, FALSE)

Spec == Init /\ [][Next]_vars

\* start commands only
InitStart == Scenario(StartConns, StartWorkers, StartCmds, StartSteps, StartDrains, FALSE)
StartOnly == {Cmd("start", "task"), Cmd("start", "")}
NextStart == Net(StartOnly) \/ (\E c \in Conns : HandleStart(c)) \/ Run
SpecStart == InitStart /\ [][NextStart]_vars

\* start, pause, resume, stop and the agent's check_continue
InitPause == Scenario(PauseConns, PauseWorkers, PauseCmds, PauseSteps, PauseDrains, FALSE)
PauseOnly == {Cmd("start", "task"), Cmd("pause", ""), Cmd("resume", ""), Cmd("stop", "")}
NextPause == Net(PauseOnly) \/ (\E c \in Conns : HandleStart(c)) \/ Run \/ PauseOps
SpecPause == InitPause /\ [][NextPause]_vars

\* start, human_input and the agent's ask_human
InitAsk == Scenario(AskConns, AskWorkers, AskCmds, AskSteps, AskDrains, FALSE)
AskOnly == {Cmd("start", "task"), Cmd("human_input", "")} \cup {Cmd("human_input", x) : x \in Texts}
NextAsk == Net(AskOnly) \/ (\E c \in Conns : HandleStart(c)) \/ Run \/ AskOps
SpecAsk == InitAsk /\ [][NextAsk]_vars

\* start, stop and check_continue: every way a run can end.  The loop runs
\* every ready task, and a pending send, browser call or agent step completes.
InitRun == Scenario(RunConns, RunWorkers, RunCmds, RunSteps, RunDrains, FALSE)
RunOnly == {Cmd("start", "task"), Cmd("stop", "")}
StepsRun ==
  \/ Serve(RunOnly)
  \/ \E c \in Conns : HandleStart(c) \/ HandleStop(c)
  \/ Run
  \/ \E w \in Workers : CallCheck(w) \/ CheckPause(w)
NextRun == Inputs(RunOnly) \/ StepsRun
SpecRun == InitRun /\ [][NextRun]_vars /\ WF_vars(StepsRun)

\* observers connect, send pause and leave; every delivery is recorded
InitBus == Scenario(BusConns, BusWorkers, BusCmds, BusSteps, BusDrains, TRUE)
BusOnly == {Cmd("pause", "")}
NextBus == Net(BusOnly) \/ (\E c \in Conns : HandlePause(c))
SpecBus == InitBus /\ [][NextBus]_vars

\* the same with observers that stay
NextFanout == Arrivals(BusOnly) \/ Serve(BusOnly) \/ (\E c \in Conns : HandlePause(c))
SpecFanout == InitBus /\ [][NextFanout]_vars

\* one run from start to end, its broadcasts recorded
InitTerm == Scenario(TermConns, TermWorkers, TermCmds, TermSteps, TermDrains, TRUE)
NextTerm == Net(StartOnly) \/ (\E c \in Conns : HandleStart(c)) \/ Run
SpecTerm == InitTerm /\ [][NextTerm]_vars

\* runs that report findings, one after the other or side by side
InitFind == Scenario(FindConns, FindWorkers, FindCmds, FindSteps, NoDrains, TRUE)
NextFind ==
  \/ Inputs(StartOnly) \/ ServeAtOnce(StartOnly)
  \/ (\E c \in Conns : HandleStart(c)) \/ Run \/ ReportOps
SpecFind == InitFind /\ [][NextFind]_vars

\* an observer joins while another one pauses
InitJoin == Scenario(JoinConns, JoinWorkers, JoinCmds, JoinSteps, JoinDrains, TRUE)
SpecJoin == InitJoin /\ [][NextBus]_vars

\* the same; the loop runs every ready task and a lost connection wakes the
\* send that waits for it, but nothing makes a peer read: the transport of a
\* connection that stays open may stay full for ever
LostWakes ==
  \/ \E t \in Tasks : bc[t].st = "drain" /\ open[bc[t].pos] = "closed" /\ DrainDone(t)
  \/ \E c \in Conns : open[c] = "closed" /\ SnapDrainDone(c)

StepsSlow ==
  \/ Dispatch
  \/ \E t \in Tasks : BcNext(t) \/ BcResume(t)
  \/ \E c \in Conns :
       \/ Register(c) \/ SnapResume(c) \/ Loop(c, BusOnly)
       \/ HandlerBcRet(c) \/ HandlerBcExc(c) \/ HandlePause(c)
SpecSlow == InitJoin /\ [][NextBus]_vars /\ WF_vars(StepsSlow) /\ WF_vars(LostWakes)

\* a run that asks the human, with stop among the commands
InitQuest == Scenario(QuestConns, QuestWorkers, QuestCmds, QuestSteps, QuestDrains, FALSE)
QuestOnly == {Cmd("start", "task"), Cmd("stop", "")} \cup {Cmd("human_input", x) : x \in Texts}
NextQuest ==
  \/ Net(QuestOnly)
  \/ \E c \in Conns : HandleStart(c) \/ HandleStop(c)
  \/ Run \/ AskOps
SpecQuest == InitQuest /\ [][NextQuest]_vars

\* start, stop and check_continue, the commands of each run recorded
InitHalt == Scenario(HaltConns, HaltWorkers, HaltCmds, HaltSteps, HaltDrains, TRUE)
NextHalt ==
  \/ Net(RunOnly)
  \/ \E c \in Conns : HandleStart(c) \/ HandleStop(c)
  \/ Run
  \/ \E w \in Workers : CallCheck(w) \/ CheckPause(w)
SpecHalt == InitHalt /\ [][NextHalt]_vars

(***************************************************************************)
(* Properties                                                              *)
(***************************************************************************)
\* C1: at most one worker run is active at any time: a start command handled
\* while a run is spawned and not finished spawns no second worker.
C1_SingleRun == Cardinality({w \in Workers : Active(w)}) <= 1

\* agent.run has returned or raised (or could not be constructed)
Outcome(w) == pc[w] \in {"closing_ret", "closing_exc", "closed_ret", "closed_exc",
                         "rr_complete", "rr_result", "rr_error"}
\* the task is past "controller.running = False"
Reset(w) == pc[w] \in {"rr_state", "done", "escaped"}
Ended(w) == pc[w] \in {"done", "escaped"}

Passes(w) == chk[w] # "normal" /\ chk'[w] = "normal"

\* C3: once a stop command has been handled during a run, no check_pause call
\* of that run returns normally, also not the call that was suspended in the
\* paused wait when the stop arrived.
C3_StopSeen ==
  [][\A w \in Workers : Passes(w) => ~stop_requested]_vars

\* C4: while the controller is Paused and no stop is requested, a check_pause
\* call does not return normally.
C4_PausedBlocks ==
  [][\A w \in Workers : (Passes(w) /\ ~stop_requested) => ~paused]_vars

\* C5: no check_pause call is suspended on resume_event once a resume command
\* has been handled since the call began: the wake-up is not lost.
C5_NoLostWakeup ==
  \A w \in Workers : pc[w] = "wait_resume" => ~resumedSince[w]

\* C6: an ask_human call that has returned, and during which a non-empty
\* human_input sent after the question went out was handled before the
\* timeout, returned that text.
C6_AnswerReturned ==
  \A w \in Workers :
    (askres[w] \in Texts \cup {FALLBACK, CONTINUE} /\ heard[w] # {})
      => askres[w] \in heard[w]

\* C7: ask_human returns the fallback string when no human_input was handled
\* while it waited, and a text it returns was handled while it waited: an
\* input handled when no question was pending is never returned.
C7_NoStaleAnswer ==
  \A w \in Workers :
    askres[w] \notin {None, "exc"} =>
      IF heardW[w] = {} THEN askres[w] = FALLBACK
      ELSE askres[w] \in heardW[w] \cup {CONTINUE}

\* an ask_human call timed out although an answer that came too late is stored
C7_Witness ==
  \E w \in Workers : askres[w] = FALLBACK /\ human_response \in Texts

\* C8: a connection added or removed while a broadcast iterates over the
\* connection set raises no error in the broadcast.
C8_NoIterationError == \A t \in Tasks : bc[t].st # "exc"

\* C9: a broadcast that met a delivery failure raises no error, and when it
\* returns the failed connection is no longer registered.
C9_FailureIsolated ==
  \A t \in Tasks :
    /\ bc[t].dead # {} => bc[t].st # "exc"
    /\ bc[t].st = "ret" => bc[t].dead \cap connections = {}

\* C10: every connection is sent the broadcasts in the order of the calls.
C10_Fifo ==
  \A c \in Conns : \A i, j \in DOMAIN inbox[c] :
    i < j => inbox[c][i] < inbox[c][j]

\* C11: every run emits exactly one terminal broadcast, a result message or
\* an error-level log: never more than one, and one once the run is past its
\* try and except blocks.
C11_OneTerminal ==
  \A w \in Workers : /\ Len(terminal[w]) <= 1
                     /\ Reset(w) => Len(terminal[w]) = 1

\* the run_research task executes its first statements in this step
Begins(w) == pc[w] = "spawned" /\ pc'[w] # "spawned"

\* a start command is accepted in this step: the task is created
Spawns(w) == pc[w] = "unspawned" /\ pc'[w] = "spawned"

\* C12: an accepted start leaves the controller not Paused, as its state echo
\* says, and once its worker has begun the controller is Running with no stop
\* requested and empty findings.
C12_StartClean ==
  [][\A w \in Workers :
       /\ Spawns(w) => ~paused'
       /\ Begins(w) => (running' /\ ~stop_requested' /\ findings' = <<>>)]_vars

\* C13: findings changes only by an append (report_item) or by being replaced
\* with the empty sequence when a run begins, which happens under no run that
\* has reported a finding; every run begins with empty findings, and its
\* result message carries the findings sequence with all it reported.
C13_Findings ==
  [][/\ findings' # findings =>
          \/ \E x \in Titles : findings' = Append(findings, x)
          \/ /\ findings' = <<>>
             /\ \E w \in Workers : Begins(w)
             /\ \A v \in Workers : reports[v] > 0 => ~Active(v)
     /\ \A w \in Workers : Begins(w) => findings' = <<>>
     /\ \A w \in Workers :
          carried'[w] # carried[w] =>
            /\ carried'[w] = Append(carried[w], findings)
            /\ Len(findings) >= reports[w]]_vars

\* ws_handler c handles a command of this kind in this step
Handles(c, a) == cur = c /\ pc[c] = "got" /\ msg[c].action = a

\* C14: a start command handled while a run is active (running is true)
\* spawns no worker, changes nothing of the controller, and is answered with a
\* broadcast of the state.
C14_StartIgnored ==
  [][\A c \in Conns :
       (Handles(c, "start") /\ running) =>
         /\ \A w \in Workers : ~Spawns(w)
         /\ UNCHANGED ctl
         /\ bc'[c].st = "iter" /\ bc'[c].kind = "state"]_vars

\* C15: while a worker is suspended in ask_human waiting for the answer, the
\* controller is Running or Paused: running is true and no stop is requested.
C15_QuestionInRun ==
  \A w \in Workers : pc[w] = "ask_wait" => (running /\ ~stop_requested)

\* ws_handler c adds its socket to connections in this step
Registers(c) == c \notin connections /\ c \in connections'

\* C16: the first message a connection is sent is the state snapshot, and the
\* snapshot carries running, paused and findings as they are at the moment
\* the connection is registered.
C16_SnapshotFirst ==
  [][\A c \in Conns :
       /\ inbox'[c] # <<>> => inbox'[c][1] = 0
       /\ (Registers(c) /\ inbox'[c] # <<>>) =>
            snap'[c] = <<[running |-> running, paused |-> paused,
                          findings |-> findings]>>]_vars

\* a connection was sent its snapshot and a broadcast after it, and one that
\* registered after the pause was sent a snapshot that says paused
C16_Witness ==
  /\ \E c \in Conns : Len(inbox[c]) >= 2
  /\ \E c \in Conns : snap[c] # <<>> /\ snap[c][1].paused

\* C17: a broadcast that waits for one observer's transport goes on to the
\* other observers and returns to its caller, whether or not that transport
\* ever drains.
C17_SlowIsolated ==
  \A t \in Tasks : (bc[t].st = "drain") ~> (bc[t].st # "drain")

\* no run is active
Idle == ~running /\ \A w \in Workers : ~Active(w)

\* C18: a pause, resume or stop command handled while no run is active
\* changes neither paused nor stop_requested.
C18_IdleCommands ==
  [][\A c \in Conns :
       (Idle /\ (Handles(c, "pause") \/ Handles(c, "resume") \/ Handles(c, "stop")))
         => (paused' = paused /\ stop_requested' = stop_requested)]_vars

\* C19: report_item appends the finding before its log is broadcast: while
\* the run lasts, findings holds every finding of the run whose log an
\* observer has been sent, so a snapshot or a read of findings after the log
\* has it.
C19_AppendBeforeLog ==
  \A w \in Workers : Active(w) => Len(findings) >= shown[w]

\* C20: once a stop command has been handled after a run was spawned,
\* stop_requested is true for as long as that run lasts.
C20_StopKept ==
  \A w \in Workers : (stopHeard[w] /\ Active(w)) => stop_requested

====
